---- MODULE Spec2Model ----
(***************************************************************************)
(* Model of the two grid-search scripts of the repository:                 *)
(*   src/ComplexCNN.py           hyperparameter_tuning, train_model,       *)
(*                               evaluate_model, load_and_visualize_data   *)
(*   src/test_hyperparameters.py test_hyperparams, train_model,            *)
(*                               evaluate_model                            *)
(* One behaviour is one execution started at one entry point (entry).      *)
(* The numerical library is external: what a network predicts on a batch   *)
(* is an input, drawn by Outcomes; a float is kept as an exact fraction    *)
(* <<numerator, denominator>>.                                             *)
(***************************************************************************)
EXTENDS Integers, Sequences, FiniteSets, TLC

(* ------------------------------ bounds --------------------------------- *)
\* how many entries of the hard-coded lists of test_hyperparams are kept
NumLR == 2
NumBS == 2
NumNE == 2
\* len(cifar_dataset) and len(test_dataset), scaled down
DatasetSize == 20
TestDatasetSize == 10
\* direct calls of train_model / evaluate_model: epochs and loader sizes
MaxEpochs == 2
MaxSamples == 2

(* ------------------------------ helpers -------------------------------- *)
Min(a, b) == IF a <= b THEN a ELSE b

IsPrefix(s, t) == Len(s) <= Len(t) /\ SubSeq(t, 1, Len(s)) = s

\* a float as an exact fraction; Undef is a local that is not assigned yet
Undef == <<0, 0>>

Frac(n, d) == <<n, d>>

\* a > b on fractions with positive denominators
Greater(a, b) == a[1] * b[2] > b[1] * a[2]

SameValue(a, b) == a[1] * b[2] = b[1] * a[2]

\* 0 <= a <= 100
InPercentRange(a) == a[2] > 0 /\ a[1] >= 0 /\ a[1] <= 100 * a[2]

\* torch.utils.data.DataLoader over n samples: the sizes of the batches it
\* yields (drop_last is False: the last batch holds the remainder)
DataLoader(n, bs) ==
  [i \in 1..((n + bs - 1) \div bs) |-> IF i * bs <= n THEN bs ELSE n - (i - 1) * bs]

(* -------------------- test_hyperparameters.py: data -------------------- *)
\* int(0.8 * len(cifar_dataset))
train_size == (8 * DatasetSize) \div 10

val_size == DatasetSize - train_size

\* the hard-coded lists, learning rates in units of 0.0001
learning_rate == SubSeq(<<1, 5, 10, 50, 100, 500, 1000>>, 1, NumLR)

batch_size == SubSeq(<<8, 16, 32, 64, 128, 256>>, 1, NumBS)

num_epochs_list == SubSeq(<<5, 10, 20, 35, 50, 100>>, 1, NumNE)

num_tests == Len(learning_rate) * Len(batch_size) * Len(num_epochs_list)

\* the dictionary key f'lr={lr}, bs={bs}, ne={ne}'
M_KeyWithoutEpochs(lr, bs, ne) == <<lr, bs, 0>>

Key(lr, bs, ne) == <<lr, bs, ne>>

\* the initial key 'none' of largest_acc
NoKey == <<0, 0, 0>>

\* results[key] = rec on a dict kept as the sequence of its items, in
\* insertion order: an existing key keeps its place and gets the new value
DictSet(d, rec) ==
  IF \E i \in 1..Len(d) : d[i].key = rec.key
    THEN [i \in 1..Len(d) |-> IF d[i].key = rec.key THEN rec ELSE d[i]]
    ELSE Append(d, rec)

\* the loop of lines 245-249 over the items of results
RECURSIVE LargestAcc(_, _, _)
LargestAcc(d, i, cur) ==
  IF i > Len(d) THEN cur
  ELSE IF Greater(d[i].accuracy, cur[1])
         THEN LargestAcc(d, i + 1, <<d[i].accuracy, d[i].key>>)
         ELSE LargestAcc(d, i + 1, cur)

\* the permutations random_split is taken to draw: two rotations and the
\* reversal of the sample numbers 1..n
SplitShifts == {0, 3}

SplitPermutations(n) ==
  {[i \in 1..n |-> ((i - 1 + r) % n) + 1] : r \in SplitShifts}
    \cup {[i \in 1..n |-> n + 1 - i]}

\* a mutant: every part is cut from the start of the permutation
M_SplitFromStart(perm, offset, length) == [i \in 1..length |-> perm[i]]

\* random_split: one part is the given number of consecutive entries of the
\* permutation, after those of the parts before it
RandomSplitPart(perm, offset, length) == [i \in 1..length |-> perm[offset + i]]

Range(f) == {f[i] : i \in DOMAIN f}

\* the samples of the k-th batch of a loader over the dataset ds
BatchSamples(ds, loader, k, ord) ==
  LET first == (k - 1) * loader[1]
  IN {IF ord = "fwd" THEN ds[first + i] ELSE ds[Len(ds) + 1 - (first + i)] :
        i \in 1..loader[k]}

(* ----------------------- ComplexCNN.py: the grid ----------------------- *)
SupportedModels == {"SimpleCNN", "RegNetX", "ComplexCNN"}

SupportedOptimizers == {"adam", "sgd"}

\* the grids hyperparameter_tuning is called with
ModelLists ==
  {<<>>, <<"SimpleCNN">>, <<"SimpleCNN", "RegNetX">>, <<"ComplexCNN">>,
   <<"VGG">>, <<"SimpleCNN", "VGG">>}

OptimizerLists == {<<"adam">>, <<"adam", "sgd">>, <<"rmsprop">>, <<"adam", "rmsprop">>}

ParamGrids ==
  [model : ModelLists, batch_size : {<<32>>, <<32, 64>>},
   learning_rate : {<<10>>, <<10, 5>>}, optimizer : OptimizerLists,
   epochs : {<<10>>}]

ProductSize(g) ==
  Len(g.model) * Len(g.batch_size) * Len(g.learning_rate) * Len(g.optimizer)
    * Len(g.epochs)

\* [dict(zip(keys, v)) for v in itertools.product(*values)]: the rightmost
\* list advances fastest
Combinations(g) ==
  LET nE == Len(g.epochs)
      nO == Len(g.optimizer)
      nL == Len(g.learning_rate)
      nB == Len(g.batch_size)
  IN [k \in 1..ProductSize(g) |->
        [model         |-> g.model[((k - 1) \div (nE * nO * nL * nB)) + 1],
         batch_size    |-> g.batch_size[(((k - 1) \div (nE * nO * nL)) % nB) + 1],
         learning_rate |-> g.learning_rate[(((k - 1) \div (nE * nO)) % nL) + 1],
         optimizer     |-> g.optimizer[(((k - 1) \div nE) % nO) + 1],
         epochs        |-> g.epochs[((k - 1) % nE) + 1]]]

NoParams == [model |-> "None", batch_size |-> 0, learning_rate |-> 0,
             optimizer |-> "None", epochs |-> 0]

(* ------------------------------- state --------------------------------- *)
VARIABLES
  entry,          \* the function this execution started in
  pc,             \* the position of the single thread of control
  err,            \* the exception that ended the execution, or "none"
  scenario,       \* how the network's predictions are drawn (Outcomes)
  \* hyperparameter_tuning (ComplexCNN.py)
  param_grid, combinations, ci, model, best_params, best_accuracy, returned,
  \* test_hyperparams (test_hyperparameters.py)
  optimizer_type, optimizer, li, bi, ni, curr_test, largest_acc, out,
  \* both drivers: the list / the dict of result records
  results,
  \* train_model and evaluate_model of both files
  train_loader, val_loader, test_loader, num_epochs, epoch, batch,
  running_loss, val_loss, correct, total,
  train_losses, val_losses, train_accs, val_accs, val_accuracy, accuracy,
  \* history: the steps finished for the current combination, the number of
  \* networks constructed, the combinations trained and evaluated so far
  steps, built, trained, evaluated,
  \* the two parts of the training set (sample numbers), the order in which
  \* the shuffling training loader yields them in the running epoch, and
  \* history: the samples each of the two loaders has yielded so far
  train_dataset, val_dataset, order, train_seen, val_seen

vars ==
  <<entry, pc, err, scenario, param_grid, combinations, ci, model, best_params,
    best_accuracy, returned, optimizer_type, optimizer, li, bi, ni, curr_test,
    largest_acc, out, results, train_loader, val_loader, test_loader,
    num_epochs, epoch, batch, running_loss, val_loss, correct, total,
    train_losses, val_losses, train_accs, val_accs, val_accuracy, accuracy,
    steps, built, trained, evaluated, train_dataset, val_dataset, order,
    train_seen, val_seen>>

datasets == <<train_dataset, val_dataset>>

sampling == <<order, train_seen, val_seen>>

driverCC == <<param_grid, combinations, ci, model, best_params, best_accuracy, returned>>

driverT == <<optimizer_type, optimizer, li, bi, ni, curr_test, largest_acc>>

loaders == <<train_loader, val_loader, test_loader, num_epochs>>

curves == <<train_losses, val_losses, train_accs, val_accs>>

Entries ==
  {"hyperparameter_tuning", "test_hyperparams", "ComplexCNN.train_model",
   "ComplexCNN.evaluate_model", "test_hyperparameters.train_model",
   "test_hyperparameters.evaluate_model"}

\* the sizes of the batches a directly called function is handed
HarnessBatchSizes == {1, 2}

\* loss.item() of one batch: an opaque non-negative float
LossOutcomes == {1}

\* (predicted == labels).sum().item() for a batch of the given size: any
\* count in a direct call; in a grid-search run one of three fixed scenarios
Outcomes(size, salt) ==
  CASE scenario = "free"     -> 0..size
    [] scenario = "allwrong" -> {0}
    [] scenario = "allright" -> {size}
    [] scenario = "mixed"    -> {salt % (size + 1)}

\* the state before the entry point runs; output.txt may hold an older log
InitCommon ==
  /\ err = "none"
  /\ combinations = <<>> /\ ci = 1 /\ model = "None"
  /\ best_params = NoParams /\ best_accuracy = Undef /\ returned = <<>>
  /\ optimizer = "None" /\ li = 1 /\ bi = 1 /\ ni = 1 /\ curr_test = 0
  /\ largest_acc = <<Undef, NoKey>>
  /\ out \in {<<>>, <<<<"older log">>>>}
  /\ results = <<>>
  /\ epoch = 0 /\ batch = 1 /\ running_loss = 0 /\ val_loss = Undef
  /\ correct = 0 /\ total = 0
  /\ train_losses = <<>> /\ val_losses = <<>> /\ train_accs = <<>> /\ val_accs = <<>>
  /\ val_accuracy = Undef /\ accuracy = Undef
  /\ steps = <<>> /\ built = 0 /\ trained = <<>> /\ evaluated = <<>>
  /\ order = "fwd" /\ train_seen = {} /\ val_seen = {}

NoLoaders ==
  /\ train_loader = <<>> /\ val_loader = <<>> /\ test_loader = <<>>
  /\ num_epochs = 0

Init ==
  /\ InitCommon
  /\ entry \in Entries
  /\ \/ /\ entry = "hyperparameter_tuning"
        /\ pc = "cc_start"
        /\ param_grid \in ParamGrids
        /\ optimizer_type = "Adam"
        /\ scenario = "free"
        /\ NoLoaders
        /\ train_dataset = <<>> /\ val_dataset = <<>>
     \/ /\ entry = "test_hyperparams"
        /\ pc = "t_start"
        /\ param_grid = <<>>
        /\ optimizer_type \in {"Adam", "SGD", "RMSprop"}
        /\ scenario \in {"allwrong", "allright", "mixed"}
        /\ NoLoaders
        /\ \E perm \in SplitPermutations(DatasetSize) :
             /\ train_dataset = RandomSplitPart(perm, 0, train_size)
             /\ val_dataset = RandomSplitPart(perm, train_size, val_size)
     \/ /\ entry \in {"ComplexCNN.train_model", "test_hyperparameters.train_model"}
        /\ pc = IF entry = "ComplexCNN.train_model" THEN "ctm_epoch" ELSE "tm_epoch"
        /\ param_grid = <<>>
        /\ optimizer_type = "Adam"
        /\ scenario = "free"
        /\ \E nt \in 0..MaxSamples, nv \in 0..MaxSamples, bs \in HarnessBatchSizes :
             /\ train_loader = DataLoader(nt, bs)
             /\ val_loader = DataLoader(nv, bs)
             /\ train_dataset = [i \in 1..nt |-> i]
             /\ val_dataset = [i \in 1..nv |-> nt + i]
        /\ test_loader = <<>>
        /\ num_epochs \in 0..MaxEpochs
     \/ /\ entry \in {"ComplexCNN.evaluate_model", "test_hyperparameters.evaluate_model"}
        /\ pc = IF entry = "ComplexCNN.evaluate_model" THEN "ce_batch" ELSE "te_batch"
        /\ param_grid = <<>>
        /\ optimizer_type = "Adam"
        /\ scenario = "free"
        /\ \E n \in 0..MaxSamples, bs \in HarnessBatchSizes :
             test_loader = DataLoader(n, bs)
        /\ train_loader = <<>> /\ val_loader = <<>>
        /\ train_dataset = <<>> /\ val_dataset = <<>>
        /\ num_epochs = 0


(* --------------------------- exceptions -------------------------------- *)
\* a mutant: the exception is swallowed and the loop body is entered again
M_RaiseAndRetry(e) == pc' = "cc_loop" /\ err' = e

\* raise: nothing catches an exception in either file, the execution ends
Raise(e) == pc' = "raised" /\ err' = e

(* ---------------- ComplexCNN.py: hyperparameter_tuning ----------------- *)
\* lines 181-187: the initial best values and the list of combinations
CC_Begin ==
  /\ pc = "cc_start"
  /\ best_accuracy' = Frac(0, 1)
  /\ best_params' = NoParams
  /\ results' = <<>>
  /\ combinations' = Combinations(param_grid)
  /\ ci' = 1
  /\ pc' = "cc_loop"
  /\ UNCHANGED <<datasets, sampling, entry, err, scenario, param_grid, model, returned, driverT, out,
                 loaders, epoch, batch, running_loss, val_loss, correct, total,
                 curves, val_accuracy, accuracy, steps, built, trained, evaluated>>

\* lines 189-207: the next combination is unpacked and its network is built,
\* or the model name is refused
CC_SelectModel ==
  /\ pc = "cc_loop"
  /\ ci <= Len(combinations)
  /\ IF combinations[ci].model \in SupportedModels
       THEN /\ model' = combinations[ci].model
            /\ built' = built + 1
            /\ steps' = <<"build">>
            /\ pc' = "cc_load"
            /\ err' = err
       ELSE /\ Raise("ValueError")
            /\ steps' = <<>>
            /\ UNCHANGED <<model, built>>
  /\ UNCHANGED <<datasets, sampling, entry, scenario, param_grid, combinations, ci, best_params,
                 best_accuracy, returned, driverT, out, results, loaders, epoch,
                 batch, running_loss, val_loss, correct, total, curves,
                 val_accuracy, accuracy, trained, evaluated>>

\* line 210 with lines 17-31: load_and_visualize_data builds the loaders and
\* returns three values; unpacking them into two names raises ValueError
\* (too many values to unpack) and neither name is bound
CC_LoadData ==
  /\ pc = "cc_load"
  /\ steps' = Append(steps, "load")
  /\ Raise("ValueError")
  /\ UNCHANGED <<datasets, sampling, entry, scenario, driverCC, driverT, out, results, loaders, epoch,
                 batch, running_loss, val_loss, correct, total, curves,
                 val_accuracy, accuracy, built, trained, evaluated>>

\* lines 240-242: the loop is over, the three values are returned
CC_Return ==
  /\ pc = "cc_loop"
  /\ ci > Len(combinations)
  /\ returned' = <<[best_params |-> best_params, best_accuracy |-> best_accuracy,
                    results |-> results]>>
  /\ pc' = "done"
  /\ UNCHANGED <<datasets, sampling, entry, err, scenario, param_grid, combinations, ci, model,
                 best_params, best_accuracy, driverT, out, results, loaders,
                 epoch, batch, running_loss, val_loss, correct, total, curves,
                 val_accuracy, accuracy, steps, built, trained, evaluated>>

(* ---------------------- ComplexCNN.py: train_model --------------------- *)
\* 100 * correct / total
Accuracy100(c, t) == Frac(100 * c, t)

\* line 123 with 124-125: one more epoch starts
CC_EpochBegin ==
  /\ pc = "ctm_epoch"
  /\ epoch < num_epochs
  /\ running_loss' = 0
  /\ batch' = 1
  /\ pc' = "ctm_train"
  /\ UNCHANGED <<datasets, sampling, entry, err, scenario, driverCC, driverT, out, results, loaders,
                 epoch, val_loss, correct, total, curves, val_accuracy, accuracy,
                 steps, built, trained, evaluated>>

\* line 123 and 160: range(epochs) is exhausted, the function returns None
CC_TrainFinished ==
  /\ pc = "ctm_epoch"
  /\ epoch >= num_epochs
  /\ pc' = "done"
  /\ UNCHANGED <<datasets, sampling, entry, err, scenario, driverCC, driverT, out, results, loaders,
                 epoch, batch, running_loss, val_loss, correct, total, curves,
                 val_accuracy, accuracy, steps, built, trained, evaluated>>

\* lines 126-135: one optimisation step on one batch
CC_TrainBatch ==
  /\ pc = "ctm_train"
  /\ batch <= Len(train_loader)
  /\ \E l \in LossOutcomes : running_loss' = running_loss + l
  /\ batch' = batch + 1
  /\ UNCHANGED <<datasets, sampling, entry, pc, err, scenario, driverCC, driverT, out, results,
                 loaders, epoch, val_loss, correct, total, curves, val_accuracy,
                 accuracy, steps, built, trained, evaluated>>

\* lines 138-144: the training loss is printed (a division by the number of
\* batches) and the validation pass is set up
CC_TrainPassEnd ==
  /\ pc = "ctm_train"
  /\ batch > Len(train_loader)
  /\ IF Len(train_loader) = 0
       THEN /\ Raise("ZeroDivisionError")
            /\ UNCHANGED <<val_loss, correct, total, batch, steps>>
       ELSE /\ val_loss' = Frac(0, 1)
            /\ correct' = 0
            /\ total' = 0
            /\ batch' = 1
            /\ steps' = Append(steps, "train")
            /\ pc' = "ctm_val"
            /\ err' = err
  /\ UNCHANGED <<datasets, sampling, entry, scenario, driverCC, driverT, out, results, loaders, epoch,
                 running_loss, curves, val_accuracy, accuracy, built, trained,
                 evaluated>>

\* lines 146-155: one validation batch
CC_ValBatch ==
  /\ pc = "ctm_val"
  /\ batch <= Len(val_loader)
  /\ \E l \in LossOutcomes : val_loss' = Frac(val_loss[1] + l, 1)
  /\ total' = total + val_loader[batch]
  /\ \E c \in Outcomes(val_loader[batch], epoch + batch) : correct' = correct + c
  /\ batch' = batch + 1
  /\ UNCHANGED <<datasets, sampling, entry, pc, err, scenario, driverCC, driverT, out, results,
                 loaders, epoch, running_loss, curves, val_accuracy, accuracy,
                 steps, built, trained, evaluated>>

\* lines 157-158: the validation accuracy of the epoch
CC_ValPassEnd ==
  /\ pc = "ctm_val"
  /\ batch > Len(val_loader)
  /\ IF total = 0
       THEN /\ Raise("ZeroDivisionError")
            /\ UNCHANGED <<val_accuracy, epoch, steps>>
       ELSE /\ val_accuracy' = Accuracy100(correct, total)
            /\ epoch' = epoch + 1
            /\ steps' = Append(steps, "validate")
            /\ pc' = "ctm_epoch"
            /\ err' = err
  /\ UNCHANGED <<datasets, sampling, entry, scenario, driverCC, driverT, out, results, loaders, batch,
                 running_loss, val_loss, correct, total, curves, accuracy, built,
                 trained, evaluated>>

(* -------------------- ComplexCNN.py: evaluate_model -------------------- *)
\* lines 169-174: one test batch
CC_EvalBatch ==
  /\ pc = "ce_batch"
  /\ batch <= Len(test_loader)
  /\ total' = total + test_loader[batch]
  /\ \E c \in Outcomes(test_loader[batch], batch) : correct' = correct + c
  /\ batch' = batch + 1
  /\ UNCHANGED <<datasets, sampling, entry, pc, err, scenario, driverCC, driverT, out, results,
                 loaders, epoch, running_loss, val_loss, curves, val_accuracy,
                 accuracy, steps, built, trained, evaluated>>

\* lines 175-177: the accuracy is computed, printed and returned
CC_EvalEnd ==
  /\ pc = "ce_batch"
  /\ batch > Len(test_loader)
  /\ IF total = 0
       THEN /\ Raise("ZeroDivisionError")
            /\ UNCHANGED <<accuracy, steps>>
       ELSE /\ accuracy' = Accuracy100(correct, total)
            /\ steps' = Append(steps, "test")
            /\ pc' = "done"
            /\ err' = err
  /\ UNCHANGED <<datasets, sampling, entry, scenario, driverCC, driverT, out, results, loaders, epoch,
                 batch, running_loss, val_loss, correct, total, curves,
                 val_accuracy, built, trained, evaluated>>


(* --------------- test_hyperparameters.py: test_hyperparams ------------- *)
\* a mutant: the file is opened with mode 'w' instead of 'a'
M_WriteToFile(f, line) == <<line>>

\* with open('output.txt', 'a') as file: print(..., file=file)
AppendToFile(f, line) == Append(f, line)

\* a mutant: the record is stored without its loss curves
M_RecordWithoutLosses(k, acc, tl, vl, ta, va) ==
  [key |-> k, accuracy |-> acc, train_accs |-> ta, val_accs |-> va]

\* lines 231-237: the value stored under the key (kept with its key)
ResultRecord(k, acc, tl, vl, ta, va) ==
  [key |-> k, accuracy |-> acc, train_losses |-> tl, val_losses |-> vl,
   train_accs |-> ta, val_accs |-> va]

\* the combination the three loops are at
CurTriple == <<learning_rate[li], batch_size[bi], num_epochs_list[ni]>>

CurKey == Key(learning_rate[li], batch_size[bi], num_epochs_list[ni])

\* lines 186-201: output.txt is opened with mode 'w' (its old content is
\* dropped) and gets the header line; the dictionary and the counter start
T_Begin ==
  /\ pc = "t_start"
  /\ out' = <<<<"Beginning Hyperparameter Test">>>>
  /\ results' = <<>>
  /\ curr_test' = 0
  /\ li' = 1 /\ bi' = 1 /\ ni' = 1
  /\ pc' = "t_loop"
  /\ UNCHANGED <<datasets, sampling, entry, err, scenario, driverCC, optimizer_type, optimizer,
                 largest_acc, loaders, epoch, batch, running_loss, val_loss,
                 correct, total, curves, val_accuracy, accuracy, steps, built,
                 trained, evaluated>>

\* lines 204-214: the next triple; the counter, the log entry, the loaders
T_LoadData ==
  /\ pc = "t_loop"
  /\ li <= Len(learning_rate)
  /\ curr_test' = curr_test + 1
  /\ out' = AppendToFile(out, <<"Testing", curr_test + 1, num_tests, CurTriple>>)
  /\ train_loader' = DataLoader(train_size, batch_size[bi])
  /\ val_loader' = DataLoader(val_size, batch_size[bi])
  /\ test_loader' = DataLoader(TestDatasetSize, batch_size[bi])
  /\ steps' = <<"load">>
  /\ pc' = "t_build"
  /\ UNCHANGED <<datasets, sampling, entry, err, scenario, driverCC, optimizer_type, optimizer, li, bi,
                 ni, largest_acc, results, num_epochs, epoch, batch, running_loss,
                 val_loss, correct, total, curves, val_accuracy, accuracy, built,
                 trained, evaluated>>

\* lines 217-225 and 49-52: a new CNN, the optimizer (anything but 'Adam'
\* selects SGD), and the call of train_model with empty curves
T_BuildModel ==
  /\ pc = "t_build"
  /\ built' = built + 1
  /\ optimizer' = IF optimizer_type = "Adam" THEN "Adam" ELSE "SGD"
  /\ num_epochs' = num_epochs_list[ni]
  /\ epoch' = 0
  /\ train_losses' = <<>> /\ val_losses' = <<>>
  /\ train_accs' = <<>> /\ val_accs' = <<>>
  /\ steps' = Append(steps, "build")
  /\ pc' = "tm_epoch"
  /\ UNCHANGED <<datasets, sampling, entry, err, scenario, driverCC, optimizer_type, li, bi, ni,
                 curr_test, largest_acc, out, results, train_loader, val_loader,
                 test_loader, batch, running_loss, val_loss, correct, total,
                 val_accuracy, accuracy, trained, evaluated>>

\* lines 231-240 and the three loop headers: the record is stored under the
\* key and the loops advance, the innermost first
T_Record ==
  /\ pc = "t_record"
  /\ results' = DictSet(results,
                        ResultRecord(CurKey, accuracy, train_losses, val_losses,
                                     train_accs, val_accs))
  /\ ni' = IF ni < Len(num_epochs_list) THEN ni + 1 ELSE 1
  /\ bi' = IF ni < Len(num_epochs_list) THEN bi
           ELSE IF bi < Len(batch_size) THEN bi + 1 ELSE 1
  /\ li' = IF ni < Len(num_epochs_list) \/ bi < Len(batch_size) THEN li ELSE li + 1
  /\ steps' = Append(steps, "record")
  /\ pc' = "t_loop"
  /\ UNCHANGED <<datasets, sampling, entry, err, scenario, driverCC, optimizer_type, optimizer,
                 curr_test, largest_acc, out, loaders, epoch, batch, running_loss,
                 val_loss, correct, total, curves, val_accuracy, accuracy, built,
                 trained, evaluated>>

\* lines 243-252: after the loops (and the plot) the largest accuracy is
\* looked up, starting from [0, 'none'], and appended to output.txt
T_ReportBest ==
  /\ pc = "t_loop"
  /\ li > Len(learning_rate)
  /\ largest_acc' = LargestAcc(results, 1, <<Frac(0, 1), NoKey>>)
  /\ out' = AppendToFile(out, <<"The best hyperparameters", largest_acc'[2],
                                largest_acc'[1]>>)
  /\ pc' = "done"
  /\ UNCHANGED <<datasets, sampling, entry, err, scenario, driverCC, optimizer_type, optimizer, li, bi,
                 ni, curr_test, results, loaders, epoch, batch, running_loss,
                 val_loss, correct, total, curves, val_accuracy, accuracy, steps,
                 built, trained, evaluated>>

(* ----------------- test_hyperparameters.py: train_model ---------------- *)
\* correct / total * 100
AccuracyPct(c, t) == Frac(100 * c, t)

\* a mutant: total counts the batches, not the samples
M_CountBatches(t, size) == t + 1

\* total += labels.size(0)
AddLabels(t, size) == t + size

\* a mutant: the curve is replaced by its newest value
M_KeepLast(curve, v) == <<v>>

\* train_losses.append(...), train_accs.append(...), and so on
AppendCurve(curve, v) == Append(curve, v)

\* a mutant: the record is stored right after training, without the test
M_SkipEvaluation == "t_record"

\* lines 225-228 of test_hyperparams: evaluate_model follows train_model
AfterTraining == "te_batch"

\* line 97: epoch+1 % 8 == 0, where % binds tighter than +
LogsEpoch(e) == e + (1 % 8) = 0

\* the orders a loader yields its samples in: the training loader of
\* test_hyperparams shuffles (line 212), a loader handed in does not
ShuffleOrders == IF entry = "test_hyperparams" THEN {"fwd", "rev"} ELSE {"fwd"}

\* lines 54-58: one more epoch starts
T_EpochBegin ==
  /\ pc = "tm_epoch"
  /\ epoch < num_epochs
  /\ order' \in ShuffleOrders
  /\ running_loss' = 0
  /\ correct' = 0
  /\ total' = 0
  /\ batch' = 1
  /\ pc' = "tm_train"
  /\ UNCHANGED <<datasets, train_seen, val_seen, entry, err, scenario, driverCC, driverT, out, results, loaders,
                 epoch, val_loss, curves, val_accuracy, accuracy, steps, built,
                 trained, evaluated>>

\* lines 54 and 102: the four curves are returned; in test_hyperparams the
\* call of evaluate_model follows (lines 228, 106-108)
T_TrainReturn ==
  /\ pc = "tm_epoch"
  /\ epoch >= num_epochs
  /\ IF entry = "test_hyperparams"
       THEN /\ trained' = Append(trained, CurTriple)
            /\ correct' = 0
            /\ total' = 0
            /\ batch' = 1
            /\ pc' = AfterTraining
       ELSE /\ pc' = "done"
            /\ UNCHANGED <<trained, correct, total, batch>>
  /\ UNCHANGED <<datasets, sampling, entry, err, scenario, driverCC, driverT, out, results, loaders,
                 epoch, running_loss, val_loss, curves, val_accuracy, accuracy,
                 steps, built, evaluated>>

\* lines 60-71: one optimisation step on one batch
T_TrainBatch ==
  /\ pc = "tm_train"
  /\ batch <= Len(train_loader)
  /\ \E l \in LossOutcomes : running_loss' = running_loss + l
  /\ total' = AddLabels(total, train_loader[batch])
  /\ train_seen' = train_seen \cup BatchSamples(train_dataset, train_loader, batch, order)
  /\ \E c \in Outcomes(train_loader[batch], epoch + batch) : correct' = correct + c
  /\ batch' = batch + 1
  /\ UNCHANGED <<datasets, order, val_seen, entry, pc, err, scenario, driverCC, driverT, out, results,
                 loaders, epoch, val_loss, curves, val_accuracy, accuracy, steps,
                 built, trained, evaluated>>

\* lines 73-82: the training loss and accuracy of the epoch are appended and
\* the validation pass is set up
T_TrainPassEnd ==
  /\ pc = "tm_train"
  /\ batch > Len(train_loader)
  /\ IF Len(train_loader) = 0
       THEN /\ Raise("ZeroDivisionError")
            /\ UNCHANGED <<train_losses, train_accs, val_loss, correct, total,
                           batch, steps, order>>
       ELSE /\ train_losses' = AppendCurve(train_losses, Frac(running_loss, Len(train_loader)))
            /\ train_accs' = AppendCurve(train_accs, AccuracyPct(correct, total))
            /\ val_loss' = Frac(0, 1)
            /\ correct' = 0
            /\ total' = 0
            /\ batch' = 1
            /\ steps' = Append(steps, "train")
            /\ order' = "fwd"
            /\ pc' = "tm_val"
            /\ err' = err
  /\ UNCHANGED <<datasets, train_seen, val_seen, entry, scenario, driverCC, driverT, out, results, loaders, epoch,
                 running_loss, val_losses, val_accs, val_accuracy, accuracy,
                 built, trained, evaluated>>

\* lines 84-91: one validation batch
T_ValBatch ==
  /\ pc = "tm_val"
  /\ batch <= Len(val_loader)
  /\ \E l \in LossOutcomes : val_loss' = Frac(val_loss[1] + l, 1)
  /\ total' = AddLabels(total, val_loader[batch])
  /\ val_seen' = val_seen \cup BatchSamples(val_dataset, val_loader, batch, "fwd")
  /\ \E c \in Outcomes(val_loader[batch], epoch + batch + 1) : correct' = correct + c
  /\ batch' = batch + 1
  /\ UNCHANGED <<datasets, order, train_seen, entry, pc, err, scenario, driverCC, driverT, out, results,
                 loaders, epoch, running_loss, curves, val_accuracy, accuracy,
                 steps, built, trained, evaluated>>

\* lines 93-100: the validation loss and accuracy of the epoch are appended;
\* the epoch entry is written to output.txt when the test of line 97 holds
T_ValPassEnd ==
  /\ pc = "tm_val"
  /\ batch > Len(val_loader)
  /\ IF Len(val_loader) = 0
       THEN /\ Raise("ZeroDivisionError")
            /\ UNCHANGED <<val_loss, val_losses, val_accs, out, epoch, steps>>
       ELSE /\ val_loss' = Frac(val_loss[1], Len(val_loader))
            /\ val_losses' = AppendCurve(val_losses, val_loss')
            /\ val_accs' = AppendCurve(val_accs, AccuracyPct(correct, total))
            /\ out' = IF LogsEpoch(epoch)
                        THEN AppendToFile(out, <<"Epoch", epoch + 1, num_epochs>>)
                        ELSE out
            /\ epoch' = epoch + 1
            /\ steps' = Append(steps, "validate")
            /\ pc' = "tm_epoch"
            /\ err' = err
  /\ UNCHANGED <<datasets, sampling, entry, scenario, driverCC, driverT, results, loaders, batch,
                 running_loss, correct, total, train_losses, train_accs,
                 val_accuracy, accuracy, built, trained, evaluated>>

(* --------------- test_hyperparameters.py: evaluate_model --------------- *)
\* lines 110-114: one test batch
T_EvalBatch ==
  /\ pc = "te_batch"
  /\ batch <= Len(test_loader)
  /\ total' = AddLabels(total, test_loader[batch])
  /\ \E c \in Outcomes(test_loader[batch], curr_test + batch) : correct' = correct + c
  /\ batch' = batch + 1
  /\ UNCHANGED <<datasets, sampling, entry, pc, err, scenario, driverCC, driverT, out, results,
                 loaders, epoch, running_loss, val_loss, curves, val_accuracy,
                 accuracy, steps, built, trained, evaluated>>

\* lines 116-120: the accuracy is computed, appended to output.txt (mode
\* 'a'), printed and returned
T_EvalEnd ==
  /\ pc = "te_batch"
  /\ batch > Len(test_loader)
  /\ IF total = 0
       THEN /\ Raise("ZeroDivisionError")
            /\ UNCHANGED <<accuracy, out, evaluated, steps>>
       ELSE /\ accuracy' = AccuracyPct(correct, total)
            /\ out' = AppendToFile(out, <<"Test Accuracy",
                                          IF entry = "test_hyperparams"
                                            THEN CurKey ELSE NoKey,
                                          accuracy'>>)
            /\ evaluated' = IF entry = "test_hyperparams"
                              THEN Append(evaluated, CurTriple) ELSE evaluated
            /\ steps' = Append(steps, "test")
            /\ pc' = IF entry = "test_hyperparams" THEN "t_record" ELSE "done"
            /\ err' = err
  /\ UNCHANGED <<datasets, sampling, entry, scenario, driverCC, driverT, results, loaders, epoch,
                 batch, running_loss, val_loss, correct, total, curves,
                 val_accuracy, built, trained>>

(* --------------------------- specification ----------------------------- *)
Next ==
  \/ CC_Begin \/ CC_SelectModel \/ CC_LoadData \/ CC_Return
  \/ CC_EpochBegin \/ CC_TrainFinished \/ CC_TrainBatch \/ CC_TrainPassEnd
  \/ CC_ValBatch \/ CC_ValPassEnd \/ CC_EvalBatch \/ CC_EvalEnd
  \/ T_Begin \/ T_LoadData \/ T_BuildModel \/ T_Record \/ T_ReportBest
  \/ T_EpochBegin \/ T_TrainReturn \/ T_TrainBatch \/ T_TrainPassEnd
  \/ T_ValBatch \/ T_ValPassEnd \/ T_EvalBatch \/ T_EvalEnd

Spec == Init /\ [][Next]_vars

TypeOK ==
  /\ entry \in Entries
  /\ pc \in {"cc_start", "cc_loop", "cc_load", "ctm_epoch", "ctm_train", "ctm_val",
             "ce_batch", "t_start", "t_loop", "t_build", "t_record", "tm_epoch",
             "tm_train", "tm_val", "te_batch", "done", "raised"}
  /\ err \in {"none", "ValueError", "ZeroDivisionError"}
  /\ (pc = "raised") = (err # "none")


(* ------------------------------ claims --------------------------------- *)
GridSupported(g) ==
  /\ \A i \in DOMAIN g.model : g.model[i] \in SupportedModels
  /\ \A i \in DOMAIN g.optimizer : g.optimizer[i] \in SupportedOptimizers

CombinationSupported(c) ==
  c.model \in SupportedModels /\ c.optimizer \in SupportedOptimizers

\* the triples of test_hyperparams in the order of its three loops
AllTriples ==
  LET nB == Len(batch_size)
      nE == Len(num_epochs_list)
  IN [k \in 1..num_tests |->
        <<learning_rate[((k - 1) \div (nB * nE)) + 1],
          batch_size[(((k - 1) \div nE) % nB) + 1],
          num_epochs_list[((k - 1) % nE) + 1]>>]

\* C1: for a grid of supported names, hyperparameter_tuning ends by
\* returning, having built, trained and evaluated one model per combination
\* of the Cartesian product, with one result record per combination.
C1_OneRecordPerCombination ==
  (entry = "hyperparameter_tuning" /\ pc \in {"done", "raised"}
     /\ GridSupported(param_grid))
  => /\ pc = "done"
     /\ built = ProductSize(param_grid)
     /\ Len(trained) = ProductSize(param_grid)
     /\ Len(evaluated) = ProductSize(param_grid)
     /\ Len(returned[1].results) = ProductSize(param_grid)

\* C2: when test_hyperparams has finished, one new CNN was built, trained
\* and evaluated per triple, in loop order; curr_test equals num_tests and
\* the dictionary holds num_tests records, one under each triple's key.
C2_EveryTripleRunOnce ==
  (entry = "test_hyperparams" /\ pc = "done")
  => /\ curr_test = num_tests
     /\ built = num_tests
     /\ trained = AllTriples
     /\ evaluated = AllTriples
     /\ Len(results) = num_tests
     /\ \A i \in 1..num_tests : results[i].key = AllTriples[i]

C2_Witness ==
  /\ entry = "test_hyperparams" /\ pc = "done"
  /\ num_tests > 1 /\ Len(results) = num_tests

\* C3: when a grid search has finished with at least one recorded accuracy,
\* the reported best accuracy is the maximum of the recorded accuracies and
\* the reported best parameters are those of a run with that accuracy.
C3_BestIsArgMax ==
  /\ (entry = "test_hyperparams" /\ pc = "done" /\ results # <<>>)
     => /\ \A j \in DOMAIN results : ~ Greater(results[j].accuracy, largest_acc[1])
        /\ \E i \in DOMAIN results :
             /\ results[i].key = largest_acc[2]
             /\ SameValue(results[i].accuracy, largest_acc[1])
  /\ (entry = "hyperparameter_tuning" /\ pc = "done" /\ results # <<>>)
     => /\ \A j \in DOMAIN results :
             ~ Greater(results[j].accuracy, returned[1].best_accuracy)
        /\ \E i \in DOMAIN results :
             /\ [f \in DOMAIN NoParams |-> results[i][f]] = returned[1].best_params
             /\ SameValue(results[i].accuracy, returned[1].best_accuracy)

\* C4: a call of hyperparameter_tuning whose grid holds a combination with an
\* unsupported model or optimizer name never returns and never trains,
\* evaluates or records anything, and the exception that ends it is a
\* ValueError; the combination at hand, when unsupported, gets no further
\* than the build and load steps; once the exception is raised no further
\* step is taken (no retry, no later combination).
C4_UnsupportedNameAborts ==
  /\ []((entry = "hyperparameter_tuning"
          /\ \E k \in DOMAIN combinations : ~ CombinationSupported(combinations[k]))
        => /\ pc # "done" /\ returned = <<>>
           /\ trained = <<>> /\ evaluated = <<>> /\ results = <<>>
           /\ (pc = "raised" => err = "ValueError"))
  /\ []((entry = "hyperparameter_tuning" /\ pc # "cc_start" /\ ci <= Len(combinations)
          /\ ~ CombinationSupported(combinations[ci]))
        => /\ pc \in {"cc_loop", "cc_load", "raised"}
           /\ IsPrefix(steps, <<"build", "load">>))
  /\ [][err = "none" \/ UNCHANGED vars]_vars

C4_Witness ==
  /\ entry = "hyperparameter_tuning" /\ pc = "raised" /\ err = "ValueError"
  /\ combinations[ci].model \notin SupportedModels
  /\ steps = <<>> /\ returned = <<>>

\* C5: in test_hyperparameters.py an optimizer_type other than 'Adam' or
\* 'SGD' aborts the run: no optimizer is selected and no model is trained.
C5_UnsupportedOptimizerTypeAborts ==
  (entry = "test_hyperparams" /\ optimizer_type \notin {"Adam", "SGD"})
  => /\ optimizer = "None"
     /\ trained = <<>>
     /\ pc \in {"t_start", "t_loop", "t_build", "raised"}

\* C6: every accuracy the code computes lies in [0, 100]: the value returned
\* by evaluate_model of both files, the validation accuracy of ComplexCNN's
\* train_model, and every entry of train_accs and val_accs, also as stored
\* in the result records.
C6_AccuracyInRange ==
  /\ accuracy = Undef \/ InPercentRange(accuracy)
  /\ val_accuracy = Undef \/ InPercentRange(val_accuracy)
  /\ \A i \in DOMAIN train_accs : InPercentRange(train_accs[i])
  /\ \A i \in DOMAIN val_accs : InPercentRange(val_accs[i])
  /\ entry = "test_hyperparams"
     => \A i \in DOMAIN results :
          /\ InPercentRange(results[i].accuracy)
          /\ \A j \in DOMAIN results[i].train_accs :
               InPercentRange(results[i].train_accs[j])
          /\ \A j \in DOMAIN results[i].val_accs :
               InPercentRange(results[i].val_accs[j])

C6_Witness ==
  /\ entry = "test_hyperparameters.evaluate_model" /\ pc = "done"
  /\ Len(test_loader) = 2 /\ accuracy = Frac(100, 2)

\* C7: in train_model of test_hyperparameters.py the four curves have one
\* entry per completed epoch (the training curves one more while the
\* validation pass of an epoch runs), and num_epochs entries on return.
C7_CurveLengths ==
  entry \in {"test_hyperparams", "test_hyperparameters.train_model"}
  => /\ pc \in {"tm_epoch", "tm_train"}
        => /\ epoch <= num_epochs
           /\ Len(train_losses) = epoch /\ Len(train_accs) = epoch
           /\ Len(val_losses) = epoch /\ Len(val_accs) = epoch
     /\ pc = "tm_val"
        => /\ epoch < num_epochs
           /\ Len(train_losses) = epoch + 1 /\ Len(train_accs) = epoch + 1
           /\ Len(val_losses) = epoch /\ Len(val_accs) = epoch
     /\ (pc \in {"te_batch", "t_record"}
           \/ (entry = "test_hyperparameters.train_model" /\ pc = "done"))
        => /\ Len(train_losses) = num_epochs /\ Len(train_accs) = num_epochs
           /\ Len(val_losses) = num_epochs /\ Len(val_accs) = num_epochs

C7_Witness ==
  /\ entry = "test_hyperparameters.train_model" /\ pc = "done"
  /\ num_epochs = MaxEpochs /\ num_epochs > 1
  /\ Len(train_losses) = num_epochs /\ Len(val_accs) = num_epochs

C9_AppendOnly == [][IsPrefix(out, out')]_vars

\* C9 amended: once test_hyperparams has rewritten output.txt with its
\* header line, the file only ever grows at its end.
C9_AppendOnlyAfterHeader == [][pc # "t_start" => IsPrefix(out, out')]_vars

C9_Witness ==
  /\ entry = "test_hyperparams" /\ pc = "done"
  /\ Len(out) = 2 + 2 * num_tests

\* load, build, then per epoch a training pass and a validation pass, then
\* the test and the record
Pipeline(k) ==
  [i \in 1..(2 * k + 4) |->
     IF i = 1 THEN "load"
     ELSE IF i = 2 THEN "build"
     ELSE IF i = 2 * k + 3 THEN "test"
     ELSE IF i = 2 * k + 4 THEN "record"
     ELSE IF i % 2 = 1 THEN "train" ELSE "validate"]

\* where the thread of control is after the given steps of test_hyperparams
StepsMatchPosition ==
  /\ pc = "t_build" => steps = <<"load">>
  /\ pc \in {"tm_epoch", "tm_train"} => Len(steps) = 2 + 2 * epoch
  /\ pc = "tm_val" => Len(steps) = 3 + 2 * epoch
  /\ pc = "te_batch" => Len(steps) = 2 + 2 * num_epochs
  /\ pc = "t_record" => Len(steps) = 3 + 2 * num_epochs
  /\ (pc \in {"t_loop", "done"} /\ curr_test > 0) => Len(steps) = 4 + 2 * num_epochs

\* C10 as stated: in both scripts a combination's steps are, in this order,
\* load, build, the epochs (training pass, then validation pass), test,
\* record.
C10_LoadBuildTrainTestRecord ==
  /\ entry = "test_hyperparams"
     => IsPrefix(steps, Pipeline(num_epochs)) /\ StepsMatchPosition
  /\ entry = "hyperparameter_tuning"
     => IsPrefix(steps, Pipeline(IF ci <= Len(combinations)
                                   THEN combinations[ci].epochs ELSE 0))

\* C10 amended: in test_hyperparams the order is load, build, epochs, test,
\* record; in hyperparameter_tuning the model is built before the data is
\* loaded.
C10_StepsInOrder ==
  /\ entry = "test_hyperparams"
     => IsPrefix(steps, Pipeline(num_epochs)) /\ StepsMatchPosition
  /\ entry = "hyperparameter_tuning"
     => IsPrefix(steps, <<"build", "load">>)

C10_Witness ==
  /\ entry = "test_hyperparams" /\ pc = "t_loop"
  /\ num_epochs = 10 /\ steps = Pipeline(10)


\* the index of the newest 'Testing' entry of output.txt, 0 when there is none
RECURSIVE LastTesting(_, _)
LastTesting(f, i) ==
  IF i = 0 THEN 0
  ELSE IF f[i][1] = "Testing" THEN i ELSE LastTesting(f, i - 1)

\* the 1-based epoch numbers whose metrics entry the running call of
\* train_model has appended to output.txt
LoggedEpochs ==
  {out[i][2] : i \in {j \in (LastTesting(out, Len(out)) + 1)..Len(out) :
                        out[j][1] = "Epoch"}}

\* C11: while train_model of test_hyperparameters.py runs and when it has
\* returned, output.txt holds its metrics entry for exactly the completed
\* epochs whose 1-based number is a multiple of 8.
C11_LogsEveryEighthEpoch ==
  (entry \in {"test_hyperparams", "test_hyperparameters.train_model"}
     /\ pc \in {"tm_epoch", "tm_train", "tm_val", "te_batch", "done"})
  => LoggedEpochs = {e \in 1..epoch : e % 8 = 0}


====
